---- MODULE Spec2Model ----
(***************************************************************************)
(* Model of the telegram-bot-imf report pipeline: the chat registry, the   *)
(* message store, message ingestion, the admin whitelist commands and the  *)
(* daily report run of ReportDeliveryService (fetch enabled chats, analyse *)
(* each chat's last 24 hours, send with retries, save a Report, aggregate  *)
(* and escalate).  The run is an asyncio coroutine: one action of the      *)
(* model is the code executed between two suspension points (await).       *)
(***************************************************************************)
EXTENDS Integers, Sequences, FiniteSets, TLC

\* ---------------------------------------------------------------- bounds
MaxChats == 2
MaxMessages == 2
MaxMsgId == 1
MaxQuestions == 1
MaxRuns == 1
MaxTicks == 2

\* Report renderings are explored from Slack characters below the Telegram
\* limit to Slack characters above it.
Slack == 50

\* Hours the model clock advances in one step.
TickHours == 18

\* A local time zone east of UTC, in hours.
UtcOffset == 12

\* Telegram chat identifiers used as inputs: a group (negative) and two
\* positive identifiers (accepted by add_chat with a warning).
ChatIds == {-1, 1, 2}

\* A non-zero administrative destination.
AdminChat == 99

\* The configured administrator's Telegram user id.
AdminUser == 7

\* ------------------------------------------------------ program constants
MAX_RETRIES == 3
WINDOW_HOURS == 24
MAX_MESSAGE_LENGTH == 4096

\* len("\n\n_[Report truncated due to length limit]_")
TRUNCATE_MARKER_LENGTH == 42
message_retention_hours == 48

MsgIds == 1..MaxMsgId
MaxTime == MaxTicks * TickHours

\* update.effective_user of a command: absent (0), the administrator, or
\* somebody else.
Users == {0, AdminUser, AdminUser + 1}

\* Names given to /add_chat; the report run is explored with the first only.
ChatNames == {"ops", "dev"}
RunNames == {"ops"}

\* telegram_message.from_user of an update: a user other than the
\* administrator (0 would be an update without from_user).
Senders == {AdminUser + 1}

\* telegram_message.text of an update: absent or a text.
Texts == {"", "hi"}

\* MESSAGE_RETENTION_HOURS as configured: the default, or one clock step.
RetentionHours == {TickHours, message_retention_hours}

\* The local time zone of the process: UTC or east of it.
UtcOffsets == {0, UtcOffset}

\* Outcomes of one bot.send_message call: success, RetryAfter, another
\* TelegramError, or an exception that is not a TelegramError.
SendOutcomes == {"ok", "retry_after", "telegram_error", "fatal"}

\* The summary block of an AnalysisResult as returned by the external model;
\* pydantic validates the field types only.
Summaries ==
  [total_questions : 0..MaxQuestions,
   answered : 0..MaxQuestions,
   unanswered : 0..MaxQuestions]

VARIABLES
  chats,          \* table chats: rows [id, chat_id, chat_name, enabled]
  messages,       \* table messages: rows [chat_id, message_id, user_id,
                  \*   user_name, text, timestamp]
  reports,        \* table reports: sequence of rows [chat_id, questions_count]
  now,            \* wall clock, in hours
  admin_chat_id,  \* settings.admin_chat_id (0 = not configured)
  pc,             \* position of generate_daily_reports
  enabled_chats,  \* the list fetched at the start of the run
  i,              \* 1-based index of the chat being processed
  results,        \* the run's results dict
  batch,          \* messages fetched for the chat being processed
  analysis,       \* summary of the AnalysisResult of the chat being processed
  sendHist,       \* outcomes of the send attempts of the current delivery
  sendResult,     \* return value of _send_telegram_report: "none", "pending", "ok", "fail"
  outcomes,       \* what happened to each chat processed so far in this run
  processed,      \* chat rows handed to _process_chat_report in this run
  notifies,       \* admin notification send attempts in this run
  runs,           \* number of runs started
  trace,          \* what the latest handler call replied or returned
  fmt,            \* _format_report: the rendering and what was returned
  utc_offset,     \* hours by which datetime.now() is ahead of datetime.utcnow()
  life            \* BotApplication: its settings, flags and position

vars == <<chats, messages, reports, now, admin_chat_id, pc, enabled_chats, i,
          results, batch, analysis, sendHist, sendResult, outcomes, processed,
          notifies, runs, trace, fmt, utc_offset, life>>

\* What is explored on its own, apart from the tables and the run.
auxVars == <<fmt, utc_offset, life>>

\* What the report run never writes: the two tables it reads and the
\* observation of the other handlers.
dbVars == <<chats, messages, trace, auxVars>>

\* What the handlers, the cleanup and the clock never write.
runVars == <<pc, enabled_chats, i, results, batch, analysis, sendHist,
             sendResult, outcomes, processed, notifies, runs, reports,
             auxVars>>

NoSummary == [total_questions |-> 0, answered |-> 0, unanswered |-> 0]

EmptyResults ==
  [total_chats |-> 0, reports_sent |-> 0, reports_skipped |-> 0,
   errors |-> 0, failed_chat_ids |-> <<>>]

\* No report rendered yet.
NoReport == [text |-> <<>>, out |-> <<>>, done |-> FALSE]

\* Nothing observed yet.
NoTrace == [op |-> "none", arg |-> 0, out |-> <<>>, ret |-> 0]

\* ------------------------------------------------------- chat repository
\* ChatRepository.get_chat_by_id: the rows with this Telegram chat id.
get_chat_by_id(chat_id) == SelectSeq(chats, LAMBDA c : c.chat_id = chat_id)

\* ChatRepository.is_chat_enabled
is_chat_enabled(chat_id) ==
  LET found == get_chat_by_id(chat_id)
  IN  found # <<>> /\ found[1].enabled

\* ChatRepository.get_all_enabled_chats
get_all_enabled_chats == SelectSeq(chats, LAMBDA c : c.enabled)

\* ---------------------------------------------------- message repository
\* MessageRepository.get_messages_since(chat_id, since): the rows whose
\* chat_id column equals the argument and whose timestamp is not before since.
get_messages_since(chat_id, since) ==
  SelectSeq(messages, LAMBDA m : m.chat_id = chat_id /\ m.timestamp >= since)

Environments == {"development", "production"}

\* BotApplication.__init__ under the settings WEBHOOK_ENABLED and
\* ENVIRONMENT: nothing is running and main() has not called start().
BotApplication(webhook_enabled, environment) ==
  [webhook_enabled |-> webhook_enabled, environment |-> environment,
   pc |-> "main", running |-> FALSE, webhook_server |-> FALSE,
   application_running |-> FALSE, scheduler_running |-> FALSE,
   attempt |-> 0, caller |-> "none", raised |-> FALSE,
   removed |-> 0, server_stops |-> 0]

\* The state after construction under the given settings in a process
\* whose local time is offset hours ahead of UTC; now is the UTC clock.
InitWith(offset, application) ==
  /\ utc_offset = offset
  /\ life = application
  /\ chats = <<>>
  /\ messages = <<>>
  /\ reports = <<>>
  /\ now = 0
  /\ admin_chat_id \in {0, AdminChat}
  /\ pc = "idle"
  /\ enabled_chats = <<>>
  /\ i = 0
  /\ results = EmptyResults
  /\ batch = <<>>
  /\ analysis = NoSummary
  /\ sendHist = <<>>
  /\ sendResult = "none"
  /\ outcomes = <<>>
  /\ processed = <<>>
  /\ notifies = 0
  /\ runs = 0
  /\ trace = NoTrace
  /\ fmt = NoReport

InitAt(offset) == InitWith(offset, BotApplication(FALSE, "development"))

Init == InitAt(0)

\* ------------------------------------------------------- admin commands
\* Variant: the decorator lets every identified user through.
admin_only_AnyUser(user) ==
  IF user = 0 THEN "no_user" ELSE "run"

\* The admin_only decorator: what happens before the handler body.
\* (bot_data['settings'] is always set by BotApplication.start.)
admin_only(user) ==
  IF user = 0 THEN "no_user"
  ELSE IF user # AdminUser THEN "denied"
  ELSE "run"

\* Variant: /add_chat always inserts a new row.
add_chat_AlwaysInsert(user, chat_id, chat_name) ==
  /\ IF admin_only(user) # "run"
     THEN chats' = chats
     ELSE /\ Len(chats) < MaxChats
          /\ chats' = Append(chats, [id |-> Len(chats) + 1,
                                     chat_id |-> chat_id,
                                     chat_name |-> chat_name,
                                     enabled |-> TRUE])
  /\ UNCHANGED <<messages, now, admin_chat_id, runVars>>

\* add_chat_command with an integer chat id and a name: upsert, enabled.
add_chat(user, chat_id, chat_name) ==
  /\ IF admin_only(user) # "run"
     THEN chats' = chats
     ELSE IF get_chat_by_id(chat_id) # <<>>
          THEN chats' = [k \in 1..Len(chats) |->
                           IF chats[k].chat_id = chat_id
                           THEN [chats[k] EXCEPT !.chat_name = chat_name,
                                                 !.enabled = TRUE]
                           ELSE chats[k]]
          ELSE /\ Len(chats) < MaxChats
               /\ chats' = Append(chats, [id |-> Len(chats) + 1,
                                          chat_id |-> chat_id,
                                          chat_name |-> chat_name,
                                          enabled |-> TRUE])
  /\ UNCHANGED <<messages, now, admin_chat_id, runVars>>

\* The replies of add_chat_command, in order.
add_chat_replies(user, chat_id) ==
  IF admin_only(user) = "no_user" THEN <<>>
  ELSE IF admin_only(user) = "denied" THEN <<"denied">>
  ELSE (IF chat_id > 0 THEN <<"warning">> ELSE <<>>)
       \o (IF get_chat_by_id(chat_id) # <<>>
           THEN <<"updated">> ELSE <<"added">>)

\* Variant: /remove_chat deletes the registry row and the chat's messages.
remove_chat_HardDelete(user, chat_id) ==
  /\ IF admin_only(user) # "run"
     THEN chats' = chats /\ messages' = messages
     ELSE /\ chats' = SelectSeq(chats, LAMBDA c : c.chat_id # chat_id)
          /\ messages' = SelectSeq(messages, LAMBDA m : m.chat_id # chat_id)
  /\ UNCHANGED <<now, admin_chat_id, runVars>>

\* remove_chat_command with an integer chat id: soft delete.
remove_chat(user, chat_id) ==
  /\ IF admin_only(user) # "run"
     THEN chats' = chats
     ELSE chats' = [k \in 1..Len(chats) |->
                      IF chats[k].chat_id = chat_id
                      THEN [chats[k] EXCEPT !.enabled = FALSE]
                      ELSE chats[k]]
  /\ UNCHANGED <<messages, now, admin_chat_id, runVars>>

\* The replies of remove_chat_command.
remove_chat_replies(user, chat_id) ==
  IF admin_only(user) = "no_user" THEN <<>>
  ELSE IF admin_only(user) = "denied" THEN <<"denied">>
  ELSE IF get_chat_by_id(chat_id) = <<>> THEN <<"not_found">>
  ELSE <<"removed">>

\* list_chats_command and admin_help_command read the registry at most.
read_command(user) ==
  UNCHANGED <<chats, messages, now, admin_chat_id, runVars>>

\* The replies of list_chats_command (what = "list") and of
\* admin_help_command (what = "help").
read_command_replies(user, what) ==
  IF admin_only(user) = "no_user" THEN <<>>
  ELSE IF admin_only(user) = "denied" THEN <<"denied">>
  ELSE <<what>>

\* ------------------------------------------------------------ ingestion
\* The Message built by handle_message from the update; the sender is 0
\* and "Unknown" when the update has no from_user (sender = 0).
new_message(chat_id, message_id, sender, text) ==
  [chat_id |-> chat_id,
   message_id |-> message_id,
   user_id |-> sender,
   user_name |-> IF sender = 0 THEN "Unknown" ELSE "Ann",
   text |-> text,
   timestamp |-> now]

\* The database call of handle_message that raises, if any: the whitelist
\* query, the commit of save_message, or the refresh that follows the commit.
DbFaults == {"none", "check", "commit", "refresh"}

\* Variant: a chat is accepted as soon as it is registered.
ingest_outcome_AnyRegistered(chat_id, text, db) ==
  IF text = "" THEN "no_text"
  ELSE IF db = "check" THEN "dropped"
  ELSE IF get_chat_by_id(chat_id) = <<>> THEN "ignored"
  ELSE IF db = "commit" THEN "dropped"
  ELSE IF db = "refresh" THEN "stored_error"
  ELSE "stored"

\* The path MessageCollectorService.handle_message takes: no text; chat not
\* enabled; an exception before the row is committed (rolled back, logged);
\* an exception after save_message has committed (logged); or stored.
ingest_outcome(chat_id, text, db) ==
  IF text = "" THEN "no_text"
  ELSE IF db = "check" THEN "dropped"
  ELSE IF ~ is_chat_enabled(chat_id) THEN "ignored"
  ELSE IF db = "commit" THEN "dropped"
  ELSE IF db = "refresh" THEN "stored_error"
  ELSE "stored"

\* MessageCollectorService.handle_message.
handle_message(chat_id, message_id, sender, text, db) ==
  /\ Len(messages) < MaxMessages
  /\ IF ingest_outcome(chat_id, text, db) \in {"stored", "stored_error"}
     THEN messages' = Append(messages,
                             new_message(chat_id, message_id, sender, text))
     ELSE messages' = messages
  /\ UNCHANGED <<chats, now, admin_chat_id, runVars>>

\* MessageRepository.get_message_by_id: the first matching row, if any.
get_message_by_id(chat_id, message_id) ==
  SelectSeq(messages,
            LAMBDA m : m.chat_id = chat_id /\ m.message_id = message_id)

\* -------------------------------------------------------------- cleanup
\* Variant: the cutoff itself is deleted too.
delete_old_messages_Inclusive(before_date) ==
  SelectSeq(messages, LAMBDA m : ~ (m.timestamp <= before_date))

\* MessageRepository.delete_old_messages: the rows left in the table.
delete_old_messages(before_date) ==
  SelectSeq(messages, LAMBDA m : ~ (m.timestamp < before_date))

\* cleanup_old_messages: cutoff_time = datetime.now() - retention, a naive
\* local time that is compared with the stored UTC timestamps.
cutoff_time(retention_hours) == (now + utc_offset) - retention_hours

\* Variant: a failing run has deleted before it fails.
cleanup_old_messages_NoRollback(retention_hours, dbOk) ==
  /\ messages' = delete_old_messages(cutoff_time(retention_hours))
  /\ UNCHANGED <<chats, now, admin_chat_id, runVars>>

\* CleanupService.cleanup_old_messages; dbOk = FALSE: the session or the
\* DELETE raises, the transaction is rolled back.
cleanup_old_messages(retention_hours, dbOk) ==
  /\ messages' = IF dbOk
                 THEN delete_old_messages(cutoff_time(retention_hours))
                 ELSE messages
  /\ UNCHANGED <<chats, now, admin_chat_id, runVars>>

\* The return value of cleanup_old_messages.
cleanup_returns(retention_hours, dbOk) ==
  IF dbOk
  THEN Len(messages)
         - Len(delete_old_messages(cutoff_time(retention_hours)))
  ELSE 0

\* The wall clock advances.
Tick ==
  /\ now + TickHours <= MaxTime
  /\ now' = now + TickHours
  /\ UNCHANGED <<chats, messages, admin_chat_id, runVars, trace>>

\* ------------------------------------------------------ the report run
\* generate_daily_reports, results bookkeeping of one chat.
RecordSent(res) == [res EXCEPT !.reports_sent = @ + 1]

RecordSkipped(res) == [res EXCEPT !.reports_skipped = @ + 1]

\* Variant: the except branch counts the error but does not list the chat.
RecordError_NoList(res, chat) == [res EXCEPT !.errors = @ + 1]

\* The except branch of the per-chat try block.
RecordError(res, chat) ==
  [res EXCEPT !.errors = @ + 1,
              !.failed_chat_ids = Append(@, chat.chat_id)]

\* Variant: escalation at a failure rate of one half or more.
HighFailureRate_AtLeastHalf(res) ==
  res.total_chats > 0 /\ 2 * res.errors >= res.total_chats

\* The admin-notification condition: failure_rate = errors / total_chats > 0.5.
HighFailureRate(res) ==
  res.total_chats > 0 /\ 2 * res.errors > res.total_chats

\* generate_daily_reports after the loop: escalate through
\* _send_admin_notification or return the results.
Finish(res, nt) ==
  IF HighFailureRate(res) /\ admin_chat_id # 0
  THEN pc' = "notify" /\ notifies' = nt + 1
  ELSE pc' = "done" /\ notifies' = nt

\* Variant: the stagger sleep follows the last chat too.
AfterChat_StaggerAfterLast(chs, k, res, nt, oc, what) ==
  /\ results' = res
  /\ outcomes' = Append(oc, what)
  /\ pc' = "stagger"
  /\ notifies' = nt

\* What follows the processing of chat k: the stagger sleep unless it was
\* the last chat.
AfterChat(chs, k, res, nt, oc, what) ==
  /\ results' = res
  /\ outcomes' = Append(oc, what)
  /\ IF k < Len(chs)
     THEN pc' = "stagger" /\ notifies' = nt
     ELSE Finish(res, nt)

\* Variant: no per-chat try block, the exception leaves generate_daily_reports.
ChatFailed_Propagates(chs, k, res, nt, oc, what) ==
  /\ results' = res
  /\ outcomes' = Append(oc, what)
  /\ notifies' = nt
  /\ pc' = "raised"

\* A per-chat exception caught by generate_daily_reports.
ChatFailed(chs, k, res, nt, oc, what) ==
  AfterChat(chs, k, RecordError(res, chs[k]), nt, oc, what)

\* Variant: an empty message list is analysed like any other.
NoMessages_Never(msgs) == FALSE

\* analyze_chat_last_24h: with no message it returns None before any call to
\* the external service.
NoMessages(msgs) == msgs = <<>>

\* Variant: a chat that is no longer enabled when its turn comes is skipped.
BeginChat_SkipsDisabled(chs, k, res, proc, nt, oc) ==
  LET chat == chs[k]
      since == now - WINDOW_HOURS
      msgs == get_messages_since(chat.id, since)
  IN  /\ i' = k
      /\ processed' = Append(proc, chat.chat_id)
      /\ batch' = msgs
      /\ analysis' = NoSummary
      /\ sendHist' = <<>>
      /\ sendResult' = "none"
      /\ IF NoMessages(msgs) \/ ~ is_chat_enabled(chat.chat_id)
         THEN AfterChat(chs, k, RecordSkipped(res), nt, oc, "no_messages")
         ELSE /\ pc' = "analyze"
              /\ results' = res
              /\ notifies' = nt
              /\ outcomes' = oc

\* _process_chat_report up to its first suspension: fetch the last 24 hours
\* of messages with the chat row's primary key and skip when there are none.
BeginChat(chs, k, res, proc, nt, oc) ==
  LET chat == chs[k]
      since == now - WINDOW_HOURS
      msgs == get_messages_since(chat.id, since)
  IN  /\ i' = k
      /\ processed' = Append(proc, chat.chat_id)
      /\ batch' = msgs
      /\ analysis' = NoSummary
      /\ sendHist' = <<>>
      /\ sendResult' = "none"
      /\ IF NoMessages(msgs)
         THEN AfterChat(chs, k, RecordSkipped(res), nt, oc, "no_messages")
         ELSE /\ pc' = "analyze"
              /\ results' = res
              /\ notifies' = nt
              /\ outcomes' = oc

\* generate_daily_reports is invoked by the scheduler.
StartRun ==
  /\ pc = "idle"
  /\ runs < MaxRuns
  /\ runs' = runs + 1
  /\ LET chs == get_all_enabled_chats
     IN  /\ enabled_chats' = chs
         /\ IF chs = <<>>
            THEN /\ pc' = "done"
                 /\ results' = EmptyResults
                 /\ i' = 0
                 /\ processed' = <<>>
                 /\ batch' = <<>>
                 /\ analysis' = NoSummary
                 /\ sendHist' = <<>>
                 /\ sendResult' = "none"
                 /\ outcomes' = <<>>
                 /\ notifies' = 0
            ELSE BeginChat(chs, 1,
                           [EmptyResults EXCEPT !.total_chats = Len(chs)],
                           <<>>, 0, <<>>)
  /\ UNCHANGED <<dbVars, reports, now, admin_chat_id>>

\* Variant: a failing analysis is swallowed and the chat is skipped as if
\* the result were empty.
AnalyzeFails_ReturnsEmpty ==
  /\ pc = "analyze"
  /\ AfterChat(enabled_chats, i, RecordSkipped(results), notifies, outcomes,
               "analysis_failed")
  /\ batch' = <<>>
  /\ UNCHANGED <<dbVars, reports, now, admin_chat_id, enabled_chats, i,
                 analysis, sendHist, sendResult, processed, runs>>

\* The analysis call raises (transport failure, unparsable or invalid
\* response); analyze_messages and analyze_chat_last_24h re-raise.
AnalyzeFails ==
  /\ pc = "analyze"
  /\ ChatFailed(enabled_chats, i, results, notifies, outcomes,
                "analysis_failed")
  /\ batch' = <<>>
  /\ UNCHANGED <<dbVars, reports, now, admin_chat_id, enabled_chats, i,
                 analysis, sendHist, sendResult, processed, runs>>

\* Variant: a report is sent whatever the number of questions.
NothingToReport_Never(s) == FALSE

\* _process_chat_report: an analysis without questions is not reported.
NothingToReport(s) == s.total_questions = 0

\* The analysis call returns a result with summary s.
AnalyzeReturns(s) ==
  /\ pc = "analyze"
  /\ batch' = <<>>
  /\ IF NothingToReport(s)
     THEN /\ AfterChat(enabled_chats, i, RecordSkipped(results), notifies,
                       outcomes, "no_questions")
          /\ UNCHANGED <<analysis, sendResult>>
     ELSE /\ pc' = "send"
          /\ analysis' = s
          /\ sendResult' = "pending"
          /\ UNCHANGED <<results, notifies, outcomes>>
  /\ UNCHANGED <<dbVars, reports, now, admin_chat_id, enabled_chats, i,
                 sendHist, processed, runs>>

\* Variant: a rate-limit signal ends the delivery.
RetriesAfter_NoRateLimitRetry(attempt, o) ==
  /\ o = "telegram_error"
  /\ attempt + 1 < MAX_RETRIES

\* Variant: the loop gives up one attempt early.
RetriesAfter_OneShort(attempt, o) ==
  /\ o \in {"retry_after", "telegram_error"}
  /\ attempt + 2 < MAX_RETRIES

\* Variant: a rate-limit signal does not consume an attempt.
RetriesAfter_RateLimitFree(attempt, o) ==
  \/ o = "retry_after"
  \/ o = "telegram_error" /\ attempt + 1 < MAX_RETRIES

\* Variant: an unexpected error is retried like a channel error.
RetriesAfter_RetryAll(attempt, o) ==
  /\ o # "ok"
  /\ attempt + 1 < MAX_RETRIES

\* _send_telegram_report: does the for loop make another attempt after the
\* 0-based attempt failed with outcome o?
RetriesAfter(attempt, o) ==
  /\ o \in {"retry_after", "telegram_error"}
  /\ attempt + 1 < MAX_RETRIES

\* ReportRepository.save_report: add the Report row to the reports table.
save_report(report) == Append(reports, report)

\* bot.send_message returns: the report is sent, then save_report runs.
SendSucceeds(saveOk) ==
  /\ pc = "send"
  /\ sendHist' = Append(sendHist, "ok")
  /\ sendResult' = "ok"
  /\ IF saveOk
     THEN /\ reports' = save_report(
                          [chat_id |-> enabled_chats[i].id,
                           questions_count |-> analysis.total_questions])
          /\ AfterChat(enabled_chats, i, RecordSent(results), notifies,
                       outcomes, "sent_saved")
     ELSE /\ reports' = reports
          /\ ChatFailed(enabled_chats, i, results, notifies, outcomes,
                        "sent_save_failed")
  /\ analysis' = NoSummary
  /\ UNCHANGED <<dbVars, now, admin_chat_id, enabled_chats, i, batch,
                 processed, runs>>

\* Variant: the Report row is written whatever _send_telegram_report
\* returned.
SendFails_SavesReport(o) ==
  /\ pc = "send"
  /\ o # "ok"
  /\ sendHist' = Append(sendHist, o)
  /\ IF RetriesAfter(Len(sendHist), o)
     THEN UNCHANGED <<pc, results, notifies, sendResult, outcomes, analysis,
                      reports>>
     ELSE /\ sendResult' = "fail"
          /\ analysis' = NoSummary
          /\ reports' = save_report(
                           [chat_id |-> enabled_chats[i].id,
                            questions_count |-> analysis.total_questions])
          /\ ChatFailed(enabled_chats, i, results, notifies, outcomes,
                        "send_failed")
  /\ UNCHANGED <<dbVars, now, admin_chat_id, enabled_chats, i, batch,
                 processed, runs>>

\* bot.send_message raises o.
SendFails(o) ==
  /\ pc = "send"
  /\ o # "ok"
  /\ sendHist' = Append(sendHist, o)
  /\ IF RetriesAfter(Len(sendHist), o)
     THEN UNCHANGED <<pc, results, notifies, sendResult, outcomes, analysis>>
     ELSE /\ sendResult' = "fail"
          /\ analysis' = NoSummary
          /\ ChatFailed(enabled_chats, i, results, notifies, outcomes,
                        "send_failed")
  /\ UNCHANGED <<dbVars, reports, now, admin_chat_id, enabled_chats, i, batch,
                 processed, runs>>

\* The stagger sleep ends and the next chat is processed.
Stagger ==
  /\ pc = "stagger"
  /\ BeginChat(enabled_chats, i + 1, results, processed, notifies, outcomes)
  /\ UNCHANGED <<dbVars, reports, now, admin_chat_id, enabled_chats, runs>>

\* _send_admin_notification: the send returns or raises o; only a
\* TelegramError is caught.
NotifyCaught(o) == o \in {"ok", "retry_after", "telegram_error"}

NotifyReturns(o) ==
  /\ pc = "notify"
  /\ pc' = IF NotifyCaught(o) THEN "done" ELSE "raised"
  /\ UNCHANGED <<dbVars, reports, now, admin_chat_id, enabled_chats, i,
                 results, batch, analysis, sendHist, sendResult, outcomes,
                 processed, notifies, runs>>

\* generate_daily_reports returns its results (pc = "done") or raises
\* (pc = "raised") to the scheduler; its locals are gone.
Return ==
  /\ pc \in {"done", "raised"}
  /\ pc' = "idle"
  /\ enabled_chats' = <<>>
  /\ i' = 0
  /\ results' = EmptyResults
  /\ sendHist' = <<>>
  /\ sendResult' = "none"
  /\ outcomes' = <<>>
  /\ processed' = <<>>
  /\ notifies' = 0
  /\ UNCHANGED <<dbVars, reports, now, admin_chat_id, batch, analysis, runs>>

\* The database sessions that are open, with a transaction begun by a query,
\* at each position of the run: the session of generate_daily_reports spans
\* the whole loop, the session of _process_chat_report spans the analysis
\* and the send of its chat.
open_sessions ==
  IF pc \in {"analyze", "send"}
  THEN <<"generate_daily_reports", "_process_chat_report">>
  ELSE IF pc = "stagger"
  THEN <<"generate_daily_reports">>
  ELSE <<>>

\* The event loop runs another callback only while the run is not running
\* or is suspended at an await; "done" and "raised" are the instant at which
\* the run hands its outcome to the scheduler.
Suspended == pc \in {"idle", "analyze", "send", "stagger", "notify"}

Next ==
  \/ Suspended /\ \E u \in Users, c \in ChatIds, n \in RunNames :
                    add_chat(u, c, n) /\ UNCHANGED trace
  \/ Suspended /\ \E u \in Users, c \in ChatIds :
                    remove_chat(u, c) /\ UNCHANGED trace
  \/ Suspended /\ \E c \in ChatIds, m \in MsgIds, t \in Texts,
                       db \in DbFaults :
                    \E u \in Senders :
                      handle_message(c, m, u, t, db) /\ UNCHANGED trace
  \/ Suspended /\ Tick
  \/ StartRun
  \/ Return
  \/ AnalyzeFails
  \/ \E s \in Summaries : AnalyzeReturns(s)
  \/ \E saveOk \in BOOLEAN : SendSucceeds(saveOk)
  \/ \E o \in SendOutcomes : SendFails(o)
  \/ Stagger
  \/ \E o \in SendOutcomes : NotifyReturns(o)

Spec == Init /\ [][Next]_vars

\* ------------------------------- the report run with the cleanup job
\* The retention job beside ingestion and the report run, with a retention
\* of the analysis window or of the default, in a process whose local time
\* is UTC or ahead of it.  The administrator registers the chats, every
\* database call of ingestion succeeds, and the escalation chat is set.
ClockRetentions == {WINDOW_HOURS, message_retention_hours}

CleanupJob(h, dbOk) ==
  cleanup_old_messages(h, dbOk) /\ UNCHANGED trace

NextClock ==
  \/ Suspended /\ \E c \in ChatIds, n \in RunNames :
                    add_chat(AdminUser, c, n) /\ UNCHANGED trace
  \/ Suspended /\ \E c \in ChatIds, m \in MsgIds, t \in Texts, u \in Senders :
                    handle_message(c, m, u, t, "none") /\ UNCHANGED trace
  \/ Suspended /\ \E h \in ClockRetentions, dbOk \in BOOLEAN :
                    CleanupJob(h, dbOk)
  \/ Suspended /\ Tick
  \/ StartRun
  \/ Return
  \/ AnalyzeFails
  \/ \E s \in Summaries : AnalyzeReturns(s)
  \/ \E saveOk \in BOOLEAN : SendSucceeds(saveOk)
  \/ \E o \in SendOutcomes : SendFails(o)
  \/ Stagger
  \/ \E o \in SendOutcomes : NotifyReturns(o)

InitClock == admin_chat_id = AdminChat /\ \E k \in UtcOffsets : InitAt(k)

SpecClock == InitClock /\ [][NextClock]_vars

\* ------------------------------------------------ the report formatter
\* A text is a sequence of characters; the joined report_lines of length n
\* is written as its character positions 1..n, the truncation marker as the
\* negated positions of its own characters.
report_text(n) == [k \in 1..n |-> k]

truncate_marker == [k \in 1..TRUNCATE_MARKER_LENGTH |-> 0 - k]

RenderLengths ==
  (MAX_MESSAGE_LENGTH - Slack)..(MAX_MESSAGE_LENGTH + Slack)

\* Variant: the cut keeps MAX_MESSAGE_LENGTH characters before the marker.
length_limit_NoRoomForMarker(text) ==
  IF Len(text) > MAX_MESSAGE_LENGTH
  THEN SubSeq(text, 1, MAX_MESSAGE_LENGTH) \o truncate_marker
  ELSE text

\* _format_report, the length limit applied to the joined lines.
length_limit(text) ==
  IF Len(text) > MAX_MESSAGE_LENGTH
  THEN LET max_len == MAX_MESSAGE_LENGTH - Len(truncate_marker)
       IN  SubSeq(text, 1, max_len) \o truncate_marker
  ELSE text

\* _format_report joins the lines it built into a text of n characters.
render(n) ==
  /\ fmt' = [text |-> report_text(n), out |-> <<>>, done |-> FALSE]
  /\ UNCHANGED <<chats, messages, now, admin_chat_id, trace, pc,
                 enabled_chats, i, results, batch, analysis, sendHist,
                 sendResult, outcomes, processed, notifies, runs, reports,
                 utc_offset, life>>

\* _format_report returns.
format_report ==
  /\ fmt.text # <<>>
  /\ ~ fmt.done
  /\ fmt' = [fmt EXCEPT !.out = length_limit(fmt.text), !.done = TRUE]
  /\ UNCHANGED <<chats, messages, now, admin_chat_id, trace, pc,
                 enabled_chats, i, results, batch, analysis, sendHist,
                 sendResult, outcomes, processed, notifies, runs, reports,
                 utc_offset, life>>

NextFormat ==
  \/ \E n \in RenderLengths : render(n)
  \/ format_report

InitFormat == Init /\ admin_chat_id = 0

SpecFormat == InitFormat /\ [][NextFormat]_vars

\* ------------------------------------------- the handlers, observed
\* The registry, the store and the clock under the admin commands, message
\* ingestion and the cleanup job, with what each call replied or returned.
\* The report run writes none of chats and messages and is left out.
\* op: the handler; arg: its chat id (the cutoff for the cleanup); out: its
\* replies in order, or the path it took; ret: the cleanup's return value
\* (the message id for an ingestion).
Observe(op, arg, out, ret) ==
  trace' = [op |-> op, arg |-> arg, out |-> out, ret |-> ret]

AddChatStep(u, c, n) ==
  add_chat(u, c, n) /\ Observe("add_chat", c, add_chat_replies(u, c), 0)

RemoveChatStep(u, c) ==
  remove_chat(u, c) /\ Observe("remove_chat", c, remove_chat_replies(u, c), 0)

ReadStep(u, what) ==
  read_command(u) /\ Observe(what, 0, read_command_replies(u, what), 0)

IngestStep(c, m, u, t, db) ==
  /\ handle_message(c, m, u, t, db)
  /\ Observe("handle_message", c, <<ingest_outcome(c, t, db)>>, m)

CleanupStep(h, dbOk) ==
  /\ cleanup_old_messages(h, dbOk)
  /\ Observe("cleanup", cutoff_time(h), <<IF dbOk THEN "ok" ELSE "failed">>,
             cleanup_returns(h, dbOk))

NextStore ==
  \/ \E u \in Users, c \in ChatIds, n \in ChatNames : AddChatStep(u, c, n)
  \/ \E u \in Users, c \in ChatIds : RemoveChatStep(u, c)
  \/ \E u \in Users, what \in {"list", "help"} : ReadStep(u, what)
  \/ \E c \in ChatIds, m \in MsgIds, u \in Senders, t \in Texts,
        db \in DbFaults : IngestStep(c, m, u, t, db)
  \/ \E h \in RetentionHours, dbOk \in BOOLEAN : CleanupStep(h, dbOk)
  \/ Tick

InitStore == Init /\ admin_chat_id = 0

SpecStore == InitStore /\ [][NextStore]_vars

TypeOK ==
  /\ pc \in {"idle", "analyze", "send", "stagger", "notify", "done", "raised"}
  /\ Len(chats) <= MaxChats
  /\ Len(messages) <= MaxMessages
  /\ sendResult \in {"none", "pending", "ok", "fail"}
  /\ trace.op \in {"none", "add_chat", "remove_chat", "list", "help",
                    "handle_message", "cleanup"}
  /\ \A k \in 1..Len(messages) : messages[k].timestamp <= now

\* ---------------------------------------------------------------- claims
Range(seq) == {seq[k] : k \in 1..Len(seq)}

Count(seq, S) == Cardinality({k \in 1..Len(seq) : seq[k] \in S})

RaisedOutcomes == {"analysis_failed", "send_failed", "sent_save_failed"}

C2_SaveFailureStillDelivered ==
  /\ results.reports_sent = Count(outcomes, {"sent_saved", "sent_save_failed"})
  /\ results.errors = Count(outcomes, {"analysis_failed", "send_failed"})
  /\ \A k \in 1..Len(outcomes) :
       outcomes[k] = "sent_save_failed" =>
         enabled_chats[k].chat_id \notin Range(results.failed_chat_ids)

\* The stored messages of the chat with Telegram id chat_id in the trailing
\* 24 hours.
OwnWindow(chat_id) ==
  SelectSeq(messages, LAMBDA m : /\ m.chat_id = chat_id
                                 /\ m.timestamp >= now - WINDOW_HOURS)

\* C3: whenever the run starts processing a chat, the messages it fetches for
\* analysis are exactly the stored messages of that same chat within the
\* trailing 24 hours.
C3_AnalysisInputIsOwnWindow ==
  [][Len(processed') = Len(processed) + 1 =>
       batch' = OwnWindow(enabled_chats'[i'].chat_id)]_vars

\* C4: when the run returns, every chat of the list is counted in exactly one
\* of reports_sent, reports_skipped and errors, total_chats is the length of
\* the list, and failed_chat_ids holds exactly the chats whose processing
\* raised, once each.
C4_SummaryPartition ==
  pc = "done" =>
    LET n == Len(enabled_chats)
        errIdx == {k \in 1..n : outcomes[k] \in RaisedOutcomes}
    IN  /\ results.total_chats = n
        /\ Len(outcomes) = n
        /\ results.reports_sent + results.reports_skipped + results.errors = n
        /\ results.reports_sent = Count(outcomes, {"sent_saved"})
        /\ results.reports_skipped =
             Count(outcomes, {"no_messages", "no_questions"})
        /\ results.errors = Cardinality(errIdx)
        /\ Len(results.failed_chat_ids) = results.errors
        /\ Range(results.failed_chat_ids) =
             {enabled_chats[k].chat_id : k \in errIdx}

\* C4 witness: two chats, the first with questions and sent, the second with
\* zero questions: sent = 1, skipped = 1, errors = 0.
C4_Witness ==
  /\ pc = "done"
  /\ outcomes = <<"sent_saved", "no_questions">>
  /\ results = [total_chats |-> 2, reports_sent |-> 1, reports_skipped |-> 1,
                errors |-> 0, failed_chat_ids |-> <<>>]

\* C5: with an administrative destination configured, a run ends with exactly
\* one escalation send if errors / total_chats > 1/2 and with none otherwise
\* (exactly one half and zero chats included).
C5_EscalationIffMajorityFailed ==
  /\ (admin_chat_id # 0 /\ pc \in {"done", "raised"}) =>
       notifies = IF 2 * results.errors > results.total_chats THEN 1 ELSE 0
  /\ pc = "notify" => 2 * results.errors > results.total_chats

\* C5 witness: a run of two chats that both failed ends after one escalation.
C5_Witness ==
  /\ pc = "done"
  /\ admin_chat_id # 0
  /\ results.total_chats = 2
  /\ results.errors = 2
  /\ notifies = 1

\* C6: the escalation send is attempted at most once per run, and whatever
\* failure it meets the run still returns its summary (it never raises).
C6_EscalationFailureOnlyLogged ==
  /\ notifies <= 1
  /\ pc # "raised"

\* C7: a success ends the delivery with result success at that attempt, and a
\* rate-limit or generic channel error before attempt MAX_RETRIES does not end
\* it: a first success at attempt k after k-1 such errors means exactly k
\* attempts and success.
C7_SuccessAtAttemptK ==
  /\ \A k \in 1..Len(sendHist) :
       sendHist[k] = "ok" => k = Len(sendHist) /\ sendResult = "ok"
  /\ sendResult = "ok" =>
       /\ sendHist # <<>>
       /\ sendHist[Len(sendHist)] = "ok"
       /\ Len(sendHist) <= MAX_RETRIES
  /\ (sendResult = "fail" /\ Len(sendHist) < MAX_RETRIES) =>
       sendHist[Len(sendHist)] \notin {"retry_after", "telegram_error"}

\* C7 witness: a rate-limit signal, then a success: two attempts, success.
C7_Witness ==
  /\ sendHist = <<"retry_after", "ok">>
  /\ sendResult = "ok"

\* C8: a delivery whose every attempt fails with a generic channel error
\* makes exactly MAX_RETRIES attempts and results in failure.
C8_AlwaysChannelErrorExhausts ==
  (sendHist # <<>> /\ \A k \in 1..Len(sendHist) : sendHist[k] = "telegram_error")
    => /\ Len(sendHist) <= MAX_RETRIES
       /\ Len(sendHist) < MAX_RETRIES => sendResult = "pending" /\ pc = "send"
       /\ Len(sendHist) = MAX_RETRIES => sendResult = "fail"

\* C8 witness: three generic channel errors and the result failure.
C8_Witness ==
  /\ sendHist = <<"telegram_error", "telegram_error", "telegram_error">>
  /\ sendResult = "fail"

\* C9: whatever the channel outcomes, a delivery makes at least one and at
\* most MAX_RETRIES send attempts, rate-limit signals included, and a delivery
\* still waiting for a send has made fewer than MAX_RETRIES attempts.
C9_AttemptsBounded ==
  /\ Len(sendHist) <= MAX_RETRIES
  /\ sendResult \in {"ok", "fail"} => Len(sendHist) >= 1
  /\ pc = "send" => sendResult = "pending" /\ Len(sendHist) < MAX_RETRIES
  /\ sendResult = "pending" => pc = "send"

\* C9 witness: three rate-limit signals exhaust the attempts.
C9_Witness ==
  /\ sendHist = <<"retry_after", "retry_after", "retry_after">>
  /\ sendResult = "fail"

\* C10: an unexpected (non-channel) error ends the delivery at once: it is
\* the last attempt of the delivery, at whatever attempt number, and the
\* result is failure.
C10_UnexpectedErrorAborts ==
  \A k \in 1..Len(sendHist) :
    sendHist[k] = "fatal" => k = Len(sendHist) /\ sendResult = "fail"

\* C10 witness: an unexpected error at the second attempt ends the delivery
\* with failure.
C10_Witness ==
  /\ sendHist = <<"telegram_error", "fatal">>
  /\ sendResult = "fail"

C12_OnlyEnabledChatsStore ==
  [][Len(messages') > Len(messages) =>
       LET m == messages'[Len(messages')]
       IN  \E k \in 1..Len(chats) :
             chats[k].chat_id = m.chat_id /\ chats[k].enabled]_vars

\* C12 witness: a message for a chat that is not in the registry has just
\* been ignored, while the store holds a message of a registered chat.
C12_Witness ==
  /\ trace.op = "handle_message"
  /\ trace.out = <<"ignored">>
  /\ get_chat_by_id(trace.arg) = <<>>
  /\ messages # <<>>

\* C13: once handle_message has stored a message of an enabled chat, the
\* store holds exactly one row for its (chat id, message id), and
\* get_message_by_id returns it with the text and the sender of the update.
C13_ExactlyOneStored ==
  (trace.op = "handle_message" /\ trace.out = <<"stored">>) =>
    LET found == get_message_by_id(trace.arg, trace.ret)
    IN  /\ Len(found) = 1
        /\ found[1].text = "hi"
        /\ found[1].user_id \in Senders
        /\ found[1].user_name = "Ann"

\* C14: no two stored messages have the same (chat id, message id).
C14_NoDuplicateMessages ==
  \A j, k \in 1..Len(messages) :
    (/\ messages[j].chat_id = messages[k].chat_id
     /\ messages[j].message_id = messages[k].message_id) => j = k

\* C15: delete_old_messages removes exactly the messages older than the
\* cutoff.  After a cleanup whose DELETE succeeds, with cutoff C = now -
\* retention: no stored message has a timestamp before C, every message
\* with a timestamp at or after C is still stored as often as before, and
\* the returned count is the number of rows removed.
C15_DeleteOldMessages ==
  [][\A h \in RetentionHours :
       (trace'.op = "cleanup" /\ CleanupStep(h, TRUE)) =>
         LET C == now - h
         IN  /\ \A k \in 1..Len(messages') : messages'[k].timestamp >= C
             /\ \A r \in Range(messages) :
                  r.timestamp >= C =>
                    Count(messages', {r}) = Count(messages, {r})
             /\ trace'.ret = Len(messages) - Len(messages')]_vars

\* C15 witness: a cleanup has removed one message and kept one whose
\* timestamp is the cutoff itself.
C15_Witness ==
  /\ trace.op = "cleanup"
  /\ trace.ret = 1
  /\ Len(messages) = 1
  /\ messages[1].timestamp = trace.arg

C17_AddChatIdempotentUpsert ==
  [][/\ \A j, k \in 1..Len(chats') :
          chats'[j].chat_id = chats'[k].chat_id => j = k
     /\ \A c \in {trace'.arg}, n \in ChatNames :
          (trace'.op = "add_chat" /\ AddChatStep(AdminUser, c, n)) =>
            LET before == {k \in 1..Len(chats) : chats[k].chat_id = c}
                after == {k \in 1..Len(chats') : chats'[k].chat_id = c}
            IN  /\ Cardinality(after) = 1
                /\ \A k \in after :
                     chats'[k].chat_name = n /\ chats'[k].enabled
                /\ Len(chats') = Len(chats) + (IF before = {} THEN 1 ELSE 0)
                /\ \A k \in 1..Len(chats) :
                     /\ chats'[k].id = chats[k].id
                     /\ chats'[k].chat_id = chats[k].chat_id
                     /\ chats[k].chat_id # c => chats'[k] = chats[k]
                /\ (\E k \in before :
                      chats[k].chat_name = n /\ chats[k].enabled)
                     => chats' = chats
                /\ messages' = messages
                /\ ("warning" \in Range(trace'.out)) <=> (c > 0)]_vars

\* C17 witness: a registered chat with a positive id has been added again
\* under another name: one row, renamed, and a warning in the replies.
C17_Witness ==
  /\ trace.op = "add_chat"
  /\ trace.out = <<"warning", "updated">>
  /\ Len(chats) = 2
  /\ \E k \in 1..Len(chats) :
       /\ chats[k].chat_id = trace.arg
       /\ chats[k].chat_name = "dev"
       /\ chats[k].enabled

\* C18: remove_chat is a soft delete.  A remove_chat by the administrator
\* changes nothing but the enabled flag of the row with that chat id, which
\* becomes false: every row stays in the registry with its key, chat id and
\* name, and the message table is untouched; and a message arriving for a
\* chat whose row is disabled is not stored.
C18_RemoveChatSoftDelete ==
  [][/\ \A c \in {trace'.arg} :
          (trace'.op = "remove_chat" /\ RemoveChatStep(AdminUser, c)) =>
            /\ messages' = messages
            /\ Len(chats') = Len(chats)
            /\ \A k \in 1..Len(chats) :
                 /\ chats'[k].id = chats[k].id
                 /\ chats'[k].chat_id = chats[k].chat_id
                 /\ chats'[k].chat_name = chats[k].chat_name
                 /\ chats'[k].enabled =
                      (chats[k].enabled /\ chats[k].chat_id # c)
     /\ \A c \in {trace'.arg}, m \in {trace'.ret}, u \in Senders,
          t \in Texts, db \in DbFaults :
          (/\ trace'.op = "handle_message"
           /\ IngestStep(c, m, u, t, db)
           /\ \E k \in 1..Len(chats) :
                chats[k].chat_id = c /\ ~ chats[k].enabled)
            => messages' = messages]_vars

\* C18 witness: a message for a removed chat has just been ignored; the
\* chat's row is still in the registry, disabled, and a message stored
\* before the removal is still in the store.
C18_Witness ==
  /\ trace.op = "handle_message"
  /\ trace.out = <<"ignored">>
  /\ \E k \in 1..Len(chats) :
       chats[k].chat_id = trace.arg /\ ~ chats[k].enabled
  /\ \E k \in 1..Len(messages) : messages[k].chat_id = trace.arg

\* C19: an admin-only command called by somebody who is not the
\* administrator never runs its body: registry and store are unchanged and
\* the only reply is the access-denied message; without an effective user
\* there is no reply at all.
C19_AdminOnlyGate ==
  [][\A u \in Users \ {AdminUser}, c \in {trace'.arg} :
       (\/ trace'.op = "add_chat"
             /\ \E n \in ChatNames : AddChatStep(u, c, n)
        \/ trace'.op = "remove_chat" /\ RemoveChatStep(u, c)
        \/ trace'.op \in {"list", "help"} /\ ReadStep(u, trace'.op))
         => /\ chats' = chats
            /\ messages' = messages
            /\ trace'.out = IF u = 0 THEN <<>> ELSE <<"denied">>]_vars

\* C19 witness: a remove_chat by somebody else has been denied and the
\* chat is still enabled.
C19_Witness ==
  /\ trace.op = "remove_chat"
  /\ trace.out = <<"denied">>
  /\ is_chat_enabled(trace.arg)

\* C20: a failing analysis is an error of its chat, never an empty result.
\* When the analysis call raises, the chat is counted in errors and listed
\* in failed_chat_ids, not in reports_skipped or reports_sent; the call is
\* not repeated (the run moves on from this chat); nothing is sent and no
\* Report row is saved.
C20_AnalysisFailurePropagates ==
  [][(/\ pc = "analyze"
      /\ Len(outcomes') = Len(outcomes) + 1
      /\ outcomes'[Len(outcomes')] = "analysis_failed") =>
       /\ results'.errors = results.errors + 1
       /\ results'.failed_chat_ids =
            Append(results.failed_chat_ids, enabled_chats[i].chat_id)
       /\ results'.reports_skipped = results.reports_skipped
       /\ results'.reports_sent = results.reports_sent
       /\ pc' \in {"stagger", "notify", "done"}
       /\ i' = i
       /\ processed' = processed
       /\ sendHist' = <<>>
       /\ reports' = reports]_vars

\* C20 witness: the analysis of the first of two chats has failed; the run
\* is at the stagger sleep with one error and nothing sent.
C20_Witness ==
  /\ pc = "stagger"
  /\ i = 1
  /\ outcomes = <<"analysis_failed">>
  /\ results.errors = 1
  /\ sendHist = <<>>
  /\ reports = <<>>

\* C21: every analysis summary that passed the skip decision and is handed
\* to the report formatter has answered + unanswered = total_questions.
C21_SummaryCountsConsistent ==
  pc = "send" =>
    analysis.answered + analysis.unanswered = analysis.total_questions

\* C22: an empty message list is never analysed.  The external analysis call
\* is pending only for a non-empty list; and a chat whose fetched list is
\* empty goes on without that call, counted in reports_skipped.
C22_EmptyListNoAnalysis ==
  [][/\ pc' = "analyze" => batch' # <<>>
     /\ (Len(processed') = Len(processed) + 1 /\ batch' = <<>>) =>
          /\ pc' \in {"stagger", "notify", "done"}
          /\ outcomes' = Append(IF pc = "idle" THEN <<>> ELSE outcomes,
                                "no_messages")
          /\ results'.reports_skipped =
               (IF pc = "idle" THEN 0 ELSE results.reports_skipped) + 1
          /\ results'.errors = (IF pc = "idle" THEN 0 ELSE results.errors)]_vars

\* C22 witness: a finished run over one chat for which nothing was fetched:
\* skipped without an analysis, while the store is empty.
C22_Witness ==
  /\ pc = "done"
  /\ outcomes = <<"no_messages">>
  /\ results.reports_skipped = 1
  /\ results.errors = 0
  /\ messages = <<>>

\* C23: the text returned by _format_report has at most MAX_MESSAGE_LENGTH
\* characters; a rendering within the limit is returned as it is, and a
\* longer one is returned as its first MAX_MESSAGE_LENGTH - (marker length)
\* characters followed by the truncation marker.
C23_FormattedWithinLimit ==
  fmt.done =>
    /\ Len(fmt.out) <= MAX_MESSAGE_LENGTH
    /\ Len(fmt.text) <= MAX_MESSAGE_LENGTH => fmt.out = fmt.text
    /\ Len(fmt.text) > MAX_MESSAGE_LENGTH =>
         /\ Len(fmt.out) = MAX_MESSAGE_LENGTH
         /\ \A k \in 1..Len(fmt.out) :
              fmt.out[k] =
                IF k <= MAX_MESSAGE_LENGTH - TRUNCATE_MARKER_LENGTH
                THEN fmt.text[k]
                ELSE truncate_marker[k - (MAX_MESSAGE_LENGTH
                                          - TRUNCATE_MARKER_LENGTH)]

\* C23 witness: a rendering one character over the limit has been cut and
\* ends with the marker.
C23_Witness ==
  /\ fmt.done
  /\ Len(fmt.text) = MAX_MESSAGE_LENGTH + 1
  /\ Len(fmt.out) = MAX_MESSAGE_LENGTH
  /\ fmt.out[MAX_MESSAGE_LENGTH] = truncate_marker[TRUNCATE_MARKER_LENGTH]

\* C24: an error in handle_message is contained.  When a database call of
\* handle_message raises for an inbound message (the whitelist check or the
\* save), the message table is left as it was; and whatever happened to
\* earlier messages, a text message of an enabled chat that meets no error
\* is stored.
C24_IngestionErrorContained ==
  [][\A c \in {trace'.arg}, m \in {trace'.ret}, u \in Senders, t \in Texts,
       db \in DbFaults :
       (trace'.op = "handle_message" /\ IngestStep(c, m, u, t, db)) =>
         /\ trace'.out \in {<<"dropped">>, <<"stored_error">>} =>
              messages' = messages
         /\ (db = "none" /\ t # "" /\ is_chat_enabled(c)) =>
              messages' = Append(messages, new_message(c, m, u, t))]_vars

\* C25: no database session is open while the run is suspended in the
\* analysis call, in a send or a retry wait, or in the stagger sleep.
C25_NoSessionAcrossSuspension ==
  pc \in {"analyze", "send", "stagger"} => open_sessions = <<>>

\* C26: a Report row is written only after the send of its chat has
\* succeeded.  A step that changes the reports table appends one row, for
\* the chat being processed, and is the step in which the send of that chat
\* succeeds; a chat that is skipped or whose analysis or delivery fails
\* leaves the table as it was; and during the first run the table holds at
\* most as many rows as chats had a successful send.
C26_ReportOnlyAfterSend ==
  [][/\ reports' # reports =>
          /\ Len(reports') = Len(reports) + 1
          /\ SubSeq(reports', 1, Len(reports)) = reports
          /\ reports'[Len(reports')].chat_id = enabled_chats[i].id
          /\ pc = "send"
          /\ sendHist' = Append(sendHist, "ok")
          /\ sendResult' = "ok"
     /\ (/\ Len(outcomes') = Len(outcomes) + 1
         /\ outcomes'[Len(outcomes')] \in
              {"no_messages", "no_questions", "analysis_failed",
               "send_failed"}) => reports' = reports
     /\ (runs' = 1 /\ pc' # "idle") =>
          Len(reports') <=
            Count(outcomes', {"sent_saved", "sent_save_failed"})]_vars

\* C26 witness: in a finished run of two chats the delivery of one failed
\* and the other was sent; the table holds the one row of the chat sent.
C26_Witness ==
  /\ pc = "done"
  /\ outcomes = <<"send_failed", "sent_saved">>
  /\ Len(reports) = 1
  /\ reports[1].chat_id = enabled_chats[2].id

\* C27: a run over n >= 1 chats sleeps n - 1 times.  When the processing of
\* a chat is over the run goes to the stagger sleep exactly when chats are
\* left, whatever the chat's outcome; the sleep is entered at no other
\* moment, and each sleep is followed by the next chat.  A run that finds
\* no enabled chat returns the all-zero summary at once, without analysis,
\* send, sleep or escalation.
C27_StaggerBetweenChats ==
  [][/\ Len(outcomes') = Len(outcomes) + 1 =>
          ((pc' = "stagger") <=> (i' < Len(enabled_chats')))
     /\ (pc' = "stagger" /\ (pc # "stagger" \/ i' # i)) =>
          Len(outcomes') = Len(outcomes) + 1
     /\ (pc = "stagger" /\ (pc' # "stagger" \/ i' # i)) =>
          /\ i' = i + 1
          /\ Len(processed') = Len(processed) + 1
     /\ (pc = "idle" /\ pc' # "idle" /\ enabled_chats' = <<>>) =>
          /\ pc' = "done"
          /\ results' = EmptyResults
          /\ processed' = <<>>
          /\ sendHist' = <<>>
          /\ notifies' = 0
          /\ reports' = reports]_vars

\* C27 witness: a run of two chats is in its one stagger sleep, after a
\* first chat whose delivery failed.
C27_Witness ==
  /\ pc = "stagger"
  /\ i = 1
  /\ Len(enabled_chats) = 2
  /\ outcomes = <<"send_failed">>

\* C28: the chats of a run are those fetched at its start.  While the run is
\* in progress the list it works on does not change, whatever add_chat and
\* remove_chat do to the registry, and each chat begun is the next one of
\* that list and is analysed when messages were fetched for it, whether or
\* not it is still enabled, until all of them have been processed.
C28_ChatsFixedAtFetch ==
  [][/\ (pc # "idle" /\ pc' # "idle") => enabled_chats' = enabled_chats
     /\ (pc # "idle" /\ Len(processed') = Len(processed) + 1) =>
          /\ i' = i + 1
          /\ processed'[Len(processed')] = enabled_chats[i + 1].chat_id
     /\ (Len(processed') = Len(processed) + 1 /\ batch' # <<>>) =>
          pc' = "analyze"
     /\ pc' \in {"notify", "done"} =>
          Len(processed') = Len(enabled_chats')]_vars

\* C28 witness: a finished run has sent the report of a chat that was
\* disabled while the run was in progress, and has not processed a chat
\* that was added meanwhile.
C28_Witness ==
  /\ pc = "done"
  /\ \E k \in 1..Len(enabled_chats) :
       /\ outcomes[k] = "sent_saved"
       /\ ~ is_chat_enabled(enabled_chats[k].chat_id)
  /\ \E k \in 1..Len(chats) :
       /\ chats[k].enabled
       /\ \A j \in 1..Len(processed) : processed[j] # chats[k].chat_id

\* C29: with a retention of at least the analysis window, a cleanup that
\* executes before a report run starts, or between two chats of a run,
\* removes no message that the coming fetch of the run asks for: a message
\* of a chat the run is about to process whose timestamp lies in the
\* trailing WINDOW_HOURS hours.
C29_CleanupSparesWindow ==
  [][\A h \in ClockRetentions :
       (h >= WINDOW_HOURS /\ CleanupJob(h, TRUE)) =>
         LET coming ==
               IF pc = "idle" /\ runs < MaxRuns
               THEN {c.chat_id : c \in Range(get_all_enabled_chats)}
               ELSE IF pc = "stagger"
                    THEN {enabled_chats[i + 1].chat_id}
                    ELSE {}
         IN  \A r \in Range(messages) :
               (r.chat_id \in coming /\ r.timestamp >= now - WINDOW_HOURS)
                 => Count(messages', {r}) = Count(messages, {r})]_vars

\* ------------------------------------------ the application lifecycle
\* main() and BotApplication.start/stop, one action per await.  life.pc is
\* the await the process is suspended at; life.removed counts the calls of
\* bot_service.remove_webhook and life.server_stops those of
\* webhook_server.stop; life.caller says who called stop(): the except
\* clause of start() or the finally clause of main().
max_retries == 5

AwaitOutcomes == {"ok", "raise"}

PollingOutcomes == {"ok", "conflict", "error"}

\* stop() from its first statement to its first await; when it returns
\* to the except clause of start(), sys.exit(1) raises SystemExit and the
\* finally clause of main() calls stop() again.
RECURSIVE stop(_, _), stop_returns(_)

\* stop() after the webhook: the application, then the return.
stop_bot(l) ==
  IF l.application_running THEN [l EXCEPT !.pc = "stop_application"]
                           ELSE stop_returns(l)

\* stop() after the health server: the scheduler, then the webhook.
stop_webhook(l) ==
  LET t == [l EXCEPT !.scheduler_running = FALSE]
  IN  IF l.webhook_server THEN [t EXCEPT !.pc = "stop_remove_webhook"]
                          ELSE stop_bot(t)

stop(l, caller) ==
  LET s == [l EXCEPT !.running = FALSE, !.caller = caller]
  IN  IF ~l.webhook_enabled THEN [s EXCEPT !.pc = "stop_health_server"]
                            ELSE stop_webhook(s)

stop_returns(l) ==
  IF l.caller = "except" THEN stop(l, "finally")
                         ELSE [l EXCEPT !.pc = "exited"]

\* An await of start() raises: the except clause of start() calls stop().
start_raises(l) == stop([l EXCEPT !.raised = TRUE], "except")

\* start() from init_db to its next await.
initialise(l) ==
  LET s == [l EXCEPT !.scheduler_running = TRUE]
  IN  IF ~l.webhook_enabled
      THEN [s EXCEPT !.pc = "health_server_start"]
      ELSE [s EXCEPT !.running = TRUE, !.pc = "application_start"]

\* main() calls start(), which runs to its first await.
start ==
  /\ life.pc = "main"
  /\ life' = IF life.environment = "production" /\ ~life.webhook_enabled
             THEN [life EXCEPT !.pc = "startup_delay"]
             ELSE initialise(life)

startup_delay ==
  /\ life.pc = "startup_delay"
  /\ life' = initialise(life)

health_server_start(o) ==
  /\ life.pc = "health_server_start"
  /\ life' = IF o = "ok"
             THEN [life EXCEPT !.running = TRUE, !.pc = "application_start"]
             ELSE start_raises(life)

\* async with self.application, application.start(), then the mode.
application_start(o) ==
  /\ life.pc = "application_start"
  /\ life' = IF o # "ok"
             THEN start_raises(life)
             ELSE IF life.webhook_enabled
                  THEN [life EXCEPT !.application_running = TRUE,
                                    !.webhook_server = TRUE,
                                    !.pc = "webhook_server_start"]
                  ELSE [life EXCEPT !.application_running = TRUE,
                                    !.attempt = 0,
                                    !.pc = "start_polling"]

webhook_server_start(o) ==
  /\ life.pc = "webhook_server_start"
  /\ life' = IF o = "ok" THEN [life EXCEPT !.pc = "setup_webhook"]
                         ELSE start_raises(life)

setup_webhook(o) ==
  /\ life.pc = "setup_webhook"
  /\ life' = IF o = "ok" THEN [life EXCEPT !.pc = "keep_running"]
                         ELSE start_raises(life)

start_polling(o) ==
  /\ life.pc = "start_polling"
  /\ life' = IF o = "ok"
             THEN [life EXCEPT !.pc = "keep_running"]
             ELSE IF o = "conflict" /\ life.attempt < max_retries - 1
                  THEN [life EXCEPT !.pc = "retry_delay"]
                  ELSE start_raises(life)

retry_delay ==
  /\ life.pc = "retry_delay"
  /\ life' = [life EXCEPT !.attempt = @ + 1, !.pc = "start_polling"]

\* handle_signal: the signal handler runs whenever the process is alive.
handle_signal ==
  /\ life.pc \notin {"main", "exited"}
  /\ life' = [life EXCEPT !.running = FALSE]

\* _keep_running leaves its loop; the clean stop starts by mode.
keep_running ==
  /\ life.pc = "keep_running"
  /\ ~life.running
  /\ life' = [life EXCEPT !.pc = IF life.webhook_enabled
                                 THEN "clean_remove_webhook"
                                 ELSE "updater_stop"]

clean_remove_webhook(o) ==
  /\ life.pc = "clean_remove_webhook"
  /\ LET l == [life EXCEPT !.removed = @ + 1]
     IN  life' = IF o # "ok"
                 THEN start_raises(l)
                 ELSE [l EXCEPT !.pc = IF l.webhook_server
                                       THEN "clean_webhook_server_stop"
                                       ELSE "application_stop"]

clean_webhook_server_stop(o) ==
  /\ life.pc = "clean_webhook_server_stop"
  /\ LET l == [life EXCEPT !.server_stops = @ + 1]
     IN  life' = IF o = "ok" THEN [l EXCEPT !.pc = "application_stop"]
                             ELSE start_raises(l)

updater_stop(o) ==
  /\ life.pc = "updater_stop"
  /\ life' = IF o = "ok" THEN [life EXCEPT !.pc = "application_stop"]
                         ELSE start_raises(life)

\* application.stop() ends start(); main's finally clause calls stop().
application_stop(o) ==
  /\ life.pc = "application_stop"
  /\ life' = IF o = "ok"
             THEN stop([life EXCEPT !.application_running = FALSE], "finally")
             ELSE start_raises(life)

\* An await of stop() raises: out of the except clause of start() the
\* exception reaches main's finally clause, out of that one it ends main.
stop_raises(l) ==
  IF l.caller = "except" THEN stop([l EXCEPT !.raised = TRUE], "finally")
                         ELSE [l EXCEPT !.raised = TRUE, !.pc = "exited"]

stop_health_server(o) ==
  /\ life.pc = "stop_health_server"
  /\ life' = IF o = "ok" THEN stop_webhook(life) ELSE stop_raises(life)

stop_remove_webhook(o) ==
  /\ life.pc = "stop_remove_webhook"
  /\ LET l == [life EXCEPT !.removed = @ + 1]
     IN  life' = IF o = "ok" THEN [l EXCEPT !.pc = "stop_webhook_server_stop"]
                             ELSE stop_raises(l)

stop_webhook_server_stop(o) ==
  /\ life.pc = "stop_webhook_server_stop"
  /\ LET l == [life EXCEPT !.server_stops = @ + 1]
     IN  life' = IF o = "ok" THEN stop_bot(l) ELSE stop_raises(l)

stop_application(o) ==
  /\ life.pc = "stop_application"
  /\ life' = IF o = "ok"
             THEN stop_returns([life EXCEPT !.application_running = FALSE])
             ELSE stop_raises(life)

lifeRest == <<chats, messages, reports, now, admin_chat_id, pc,
              enabled_chats, i, results, batch, analysis, sendHist,
              sendResult, outcomes, processed, notifies, runs, trace, fmt,
              utc_offset>>

NextLife ==
  \/ start /\ UNCHANGED lifeRest
  \/ startup_delay /\ UNCHANGED lifeRest
  \/ \E o \in AwaitOutcomes : health_server_start(o) /\ UNCHANGED lifeRest
  \/ \E o \in AwaitOutcomes : application_start(o) /\ UNCHANGED lifeRest
  \/ \E o \in AwaitOutcomes : webhook_server_start(o) /\ UNCHANGED lifeRest
  \/ \E o \in AwaitOutcomes : setup_webhook(o) /\ UNCHANGED lifeRest
  \/ \E o \in PollingOutcomes : start_polling(o) /\ UNCHANGED lifeRest
  \/ retry_delay /\ UNCHANGED lifeRest
  \/ handle_signal /\ UNCHANGED lifeRest
  \/ keep_running /\ UNCHANGED lifeRest
  \/ \E o \in AwaitOutcomes : clean_remove_webhook(o) /\ UNCHANGED lifeRest
  \/ \E o \in AwaitOutcomes :
       clean_webhook_server_stop(o) /\ UNCHANGED lifeRest
  \/ \E o \in AwaitOutcomes : updater_stop(o) /\ UNCHANGED lifeRest
  \/ \E o \in AwaitOutcomes : application_stop(o) /\ UNCHANGED lifeRest
  \/ \E o \in AwaitOutcomes : stop_health_server(o) /\ UNCHANGED lifeRest
  \/ \E o \in AwaitOutcomes : stop_remove_webhook(o) /\ UNCHANGED lifeRest
  \/ \E o \in AwaitOutcomes :
       stop_webhook_server_stop(o) /\ UNCHANGED lifeRest
  \/ \E o \in AwaitOutcomes : stop_application(o) /\ UNCHANGED lifeRest

InitLife ==
  /\ admin_chat_id = 0
  /\ \E w \in BOOLEAN, e \in Environments : InitWith(0, BotApplication(w, e))

SpecLife == InitLife /\ [][NextLife]_vars

\* C30: a webhook-mode lifecycle in which no call failed (start, shutdown
\* flag set by a signal, clean stop at the end of start(), stop() from the
\* finally clause of main) ends with remove_webhook called exactly once
\* and webhook_server.stop called exactly once; a polling-mode lifecycle
\* never calls remove_webhook.
C30_WebhookRemovedOnce ==
  /\ (life.webhook_enabled /\ life.pc = "exited" /\ ~life.raised)
       => (life.removed = 1 /\ life.server_stops = 1)
  /\ ~life.webhook_enabled => life.removed = 0
====
